---- MODULE Spec2Model ----
(***************************************************************************)
(* Model of the Object handle of s3-resource (src/src/resources/object.rs): *)
(* a cursor over a remote S3 object with a lazily cached length, exposed    *)
(* through std::io::Read and std::io::Seek.  The S3 service is the          *)
(* environment: an object with a size, a modification time and a content,   *)
(* answering HeadObject and (ranged) GetObject requests.                    *)
(***************************************************************************)
EXTENDS Integers, Sequences, FiniteSets, TLC

\* ------------------------------------------------------------------------
\* Bounds of the model
\* ------------------------------------------------------------------------

\* Width, in bits, at which u64 / i64 / usize are modelled (a 64-bit target:
\* usize and u64 have the same width).
BITS == 8

\* Largest size the remote object takes.
MaxObj == 2

\* Largest modification time of the remote object (number of changes).
MaxTime == 1

\* Largest caller buffer handed to read.
MaxBuf == 2

\* ------------------------------------------------------------------------
\* Machine integers
\* ------------------------------------------------------------------------

RECURSIVE Pow2(_)
Pow2(n) == IF n = 0 THEN 1 ELSE 2 * Pow2(n - 1)

U64_MAX == Pow2(BITS) - 1
USIZE_MAX == Pow2(BITS) - 1
I64_MAX == Pow2(BITS - 1) - 1
I64_MIN == -Pow2(BITS - 1)

\* u64::try_from(usize), usize::try_from(u64), usize::try_from(i64): Ok iff
\* the value is representable in the target type.
FitsU64(v) == 0 <= v /\ v <= U64_MAX
FitsUsize(v) == 0 <= v /\ v <= USIZE_MAX

\* Option<T>: None is the empty sequence, Some(v) the one-element sequence.
None == <<>>
Some(v) == <<v>>
unwrap(o) == o[1]

Min(a, b) == IF a <= b THEN a ELSE b

\* ------------------------------------------------------------------------
\* State
\* ------------------------------------------------------------------------

VARIABLES
    position,         \* Object.position: usize
    length,           \* Object.length: Option<usize>
    last_modified,    \* Object.last_modified: Option<DateTime>
    remote_len,       \* the service: current size of the object
    remote_mtime,     \* the service: current Last-Modified of the object
    last,             \* observation of the last call: inputs, requests issued, result
    step,             \* how far the calls so far follow the end-to-end scenario
    run,              \* the call in progress: where it is, the requests it has in flight
    loop              \* what a caller reading in a loop has collected so far

vars == <<position, length, last_modified, remote_len, remote_mtime, last, step, run, loop>>

\* The handle as one value.
self == [position |-> position, length |-> length, last_modified |-> last_modified]

\* The service as one value.
remote == [len |-> remote_len, mtime |-> remote_mtime]

\* ------------------------------------------------------------------------
\* The S3 service, as the aws_sdk_s3 client reports it
\* ------------------------------------------------------------------------

\* Content of the remote object: byte i (0-based) of the object as written at
\* modification time t.  At time 0 the object reads 0,1,2,...,9,0,1,...
ObjectByte(t, i) == (i + t) % 10

\* The bytes [from, to] (inclusive, 0-based) of the remote object.
ObjectBytes(rem, from, to) ==
    [k \in 1..(to - from + 1) |-> ObjectByte(rem.mtime, from + k - 1)]

\* Error codes of a service error, as character sequences.
Code304 == <<"3", "0", "4">>
CodeNotFound == <<"N", "o", "t", "F", "o", "u", "n", "d">>
CodeInvalidRange == <<"I", "n", "v", "a", "l", "i", "d", "R", "a", "n", "g", "e">>
CodeOther == <<"5", "0", "0">>

\* str::starts_with
starts_with(s, prefix) ==
    Len(s) >= Len(prefix) /\ SubSeq(s, 1, Len(prefix)) = prefix

\* How a request can go, chosen by the environment.
TransportFailures == {"TimeoutError", "ConstructionFailure", "DispatchFailure", "ResponseError"}
HeadOutcomes == {"Ok", "BadLength", "NotFound", "Unhandled"} \cup TransportFailures
GetOutcomes == {"Ok", "InvalidObjectState", "NoSuchKey", "Unhandled"} \cup TransportFailures
BadRangePolicies == {"ignore", "reject"}
CollectOutcomes == {"Ok", "Err"}

\* head_object()...send(): the answer to a HeadObject request carrying
\* if_modified_since = ims (an Option), when the environment decides `how`.
\* A truthful service answers 304 to a conditional request iff the object is
\* not newer than ims, and the metadata otherwise.  "BadLength" is a response
\* whose content length is negative.
HeadObject(rem, ims, how) ==
    IF how \in TransportFailures
      THEN [sdk |-> how, kind |-> "", code |-> None, content_length |-> 0, last_modified |-> None]
    ELSE IF how = "NotFound"
      THEN [sdk |-> "ServiceError", kind |-> "NotFound", code |-> Some(CodeNotFound),
            content_length |-> 0, last_modified |-> None]
    ELSE IF how = "Unhandled"
      THEN [sdk |-> "ServiceError", kind |-> "Unhandled", code |-> None,
            content_length |-> 0, last_modified |-> None]
    ELSE IF ims # None /\ rem.mtime <= unwrap(ims)
      THEN [sdk |-> "ServiceError", kind |-> "Unhandled", code |-> Some(Code304),
            content_length |-> 0, last_modified |-> None]
    ELSE [sdk |-> "Ok", kind |-> "", code |-> None,
          content_length |-> IF how = "BadLength" THEN -1 ELSE rem.len,
          last_modified |-> Some(rem.mtime)]

\* get_object()...send(): the answer to a GetObject request with the given
\* range (None: the whole object; Some(<<start, end>>): "bytes=start-end").
\* A satisfiable range is clipped to the object's end; a range starting at or
\* after the end is refused (InvalidRange, an unhandled service error); a
\* range whose end is below its start is malformed, and the service either
\* ignores it (whole object) or refuses it, as `policy` says.  `drain` is
\* whether the body stream can be collected.
GetObject(rem, range, how, policy, drain) ==
    LET Fail(sdk, kind, code) ==
            [sdk |-> sdk, kind |-> kind, code |-> code, body |-> <<>>, stream |-> "Ok"]
        Body(from, to) ==
            [sdk |-> "Ok", kind |-> "", code |-> None,
             body |-> ObjectBytes(rem, from, to), stream |-> drain]
    IN  IF how \in TransportFailures THEN Fail(how, "", None)
        ELSE IF how \in {"InvalidObjectState", "NoSuchKey"}
          THEN Fail("ServiceError", how, None)
        ELSE IF how = "Unhandled" THEN Fail("ServiceError", "Unhandled", Some(CodeOther))
        ELSE IF range = None THEN Body(0, rem.len - 1)
        ELSE LET start == unwrap(range)[1]
                 end == unwrap(range)[2]
             IN  IF end < start
                   THEN IF policy = "ignore" THEN Body(0, rem.len - 1)
                        ELSE Fail("ServiceError", "Unhandled", Some(CodeInvalidRange))
                 ELSE IF start >= rem.len
                   THEN Fail("ServiceError", "Unhandled", Some(CodeInvalidRange))
                 ELSE Body(start, Min(end, rem.len - 1))

\* ------------------------------------------------------------------------
\* ObjectOperationError and io::Error
\* ------------------------------------------------------------------------

\* ObjectOperationError::{GetObject, HeadObject}(SdkError) via #[from], and
\* ObjectOperationError::Other.
ObjectOperationError(variant, resp) ==
    [variant |-> variant, sdk |-> resp.sdk, kind |-> resp.kind]
OtherError == [variant |-> "Other", sdk |-> "", kind |-> ""]

\* Result values of the asynchronous operations.
NoError == [variant |-> "", sdk |-> "", kind |-> ""]
Ok == [ok |-> TRUE, err |-> NoError]
Err(e) == [ok |-> FALSE, err |-> e]

\* io::Result<_> values of read and seek; "Panic" is a call that aborts.
IoOk(v) == [status |-> "Ok", value |-> v, kind |-> ""]
IoErr(kind) == [status |-> "Err", value |-> 0, kind |-> kind]
IoPanic == [status |-> "Panic", value |-> 0, kind |-> ""]

\* ------------------------------------------------------------------------
\* Object: construction and the asynchronous operations
\* ------------------------------------------------------------------------

\* Object::new
new == [position |-> 0, length |-> None, last_modified |-> None]

\* The requests a call sends, in order.
HeadRequest(ims) == [api |-> "HeadObject", if_modified_since |-> ims, range |-> None]
GetRequest(range) == [api |-> "GetObject", if_modified_since |-> None, range |-> range]

\* Object::get: a whole-object GetObject; the handle is not changed.
get(h, resp) ==
    IF resp.sdk = "Ok" THEN Ok ELSE Err(ObjectOperationError("GetObject", resp))

\* Object::reader: get(), turned into an AsyncRead.
reader(h, resp) == get(h, resp)

\* A faulty variant of get_range: a failure is wrapped as a HeadObject error.
get_range_wrong_variant(h, resp) ==
    IF resp.sdk = "Ok" THEN Ok ELSE Err(ObjectOperationError("HeadObject", resp))

\* Object::get_range: the result of the ranged GetObject whose answer is resp.
get_range(h, resp) ==
    IF resp.sdk = "Ok" THEN Ok ELSE Err(ObjectOperationError("GetObject", resp))

\* A faulty variant of head_object_request: the cached timestamp is never
\* sent.
head_object_request_unconditional(h) == HeadRequest(None)

\* The request refresh_metadata builds: conditional on the cached
\* last_modified iff there is one.
head_object_request(h) ==
    IF h.last_modified # None THEN HeadRequest(h.last_modified) ELSE HeadRequest(None)

\* usize::try_from(output.content_length()) of refresh_metadata.
ContentLengthFits(cl) == FitsUsize(cl)

\* A faulty variant of refresh_metadata: a failed refresh drops the cached
\* length.
refresh_metadata_forgets(h, resp) ==
    IF resp.sdk # "Ok"
      THEN IF resp.sdk = "ServiceError"
                /\ resp.code # None
                /\ starts_with(unwrap(resp.code), Code304)
             THEN [h |-> h, res |-> Ok]
             ELSE [h |-> [h EXCEPT !.length = None],
                   res |-> Err(ObjectOperationError("HeadObject", resp))]
    ELSE IF ~ContentLengthFits(resp.content_length)
      THEN [h |-> [h EXCEPT !.length = None], res |-> Err(OtherError)]
    ELSE [h |-> [h EXCEPT !.length = Some(resp.content_length),
                          !.last_modified = resp.last_modified],
          res |-> Ok]

\* A faulty variant of refresh_metadata: the not-modified answer is not
\* recognised and is returned as an error.
refresh_metadata_no_304(h, resp) ==
    IF resp.sdk # "Ok"
      THEN [h |-> h, res |-> Err(ObjectOperationError("HeadObject", resp))]
    ELSE IF ~ContentLengthFits(resp.content_length)
      THEN [h |-> h, res |-> Err(OtherError)]
    ELSE [h |-> [h EXCEPT !.length = Some(resp.content_length),
                          !.last_modified = resp.last_modified],
          res |-> Ok]

\* Object::refresh_metadata, given the answer resp to its HeadObject request:
\* the handle afterwards and the result.
refresh_metadata(h, resp) ==
    IF resp.sdk # "Ok"
      THEN IF resp.sdk = "ServiceError"
                /\ resp.code # None
                /\ starts_with(unwrap(resp.code), Code304)
             THEN [h |-> h, res |-> Ok]
             ELSE [h |-> h, res |-> Err(ObjectOperationError("HeadObject", resp))]
    ELSE IF ~ContentLengthFits(resp.content_length)
      THEN [h |-> h, res |-> Err(OtherError)]
    ELSE [h |-> [h EXCEPT !.length = Some(resp.content_length),
                          !.last_modified = resp.last_modified],
          res |-> Ok]

\* A faulty variant of implicit_refresh: the metadata is refreshed on every
\* call, whether or not the length is resolved.
implicit_refresh_always(h, rem, how) ==
    LET req == head_object_request(h)
        resp == HeadObject(rem, req.if_modified_since, how)
        r == refresh_metadata(h, resp)
    IN  [h |-> r.h,
         failed |-> ~r.res.ok,
         kind |-> IF r.res.ok THEN "" ELSE "Other",
         reqs |-> <<req>>,
         ooe |-> r.res.err]

\* The `if self.length.is_none() { rt.block_on(self.refresh_metadata()) ... }`
\* prologue of read and seek: the handle afterwards, the io error if the
\* refresh failed, and the requests sent.
ImplicitRefreshErrorKind(e) == "Other"

implicit_refresh(h, rem, how) ==
    IF h.length # None
      THEN [h |-> h, failed |-> FALSE, kind |-> "", reqs |-> <<>>, ooe |-> NoError]
    ELSE LET req == head_object_request(h)
             resp == HeadObject(rem, req.if_modified_since, how)
             r == refresh_metadata(h, resp)
         IN  [h |-> r.h,
              failed |-> ~r.res.ok,
              kind |-> IF r.res.ok THEN "" ELSE ImplicitRefreshErrorKind(r.res.err),
              reqs |-> <<req>>,
              ooe |-> r.res.err]

\* ------------------------------------------------------------------------
\* Arithmetic as the build performs it
\* ------------------------------------------------------------------------

\* a + b and a - b on usize / u64, and -a on i64: with overflow checks the
\* operation aborts when the exact result is not representable; without them
\* it wraps modulo 2^BITS.
Exact(v) == [panic |-> FALSE, val |-> v]
Abort == [panic |-> TRUE, val |-> 0]

unsigned_add(a, b, checks) ==
    IF a + b <= U64_MAX THEN Exact(a + b)
    ELSE IF checks THEN Abort ELSE Exact((a + b) % Pow2(BITS))

unsigned_sub(a, b, checks) ==
    IF a - b >= 0 THEN Exact(a - b)
    ELSE IF checks THEN Abort ELSE Exact((a - b + Pow2(BITS)) % Pow2(BITS))

signed_neg(a, checks) ==
    IF -a <= I64_MAX THEN Exact(-a)
    ELSE IF checks THEN Abort ELSE Exact(I64_MIN)

\* ------------------------------------------------------------------------
\* impl Read for Object
\* ------------------------------------------------------------------------

\* A faulty variant of at_end_of_stream: `>` for `>=`.
at_end_of_stream_strict(h) == h.position > unwrap(h.length)

\* `self.position >= self.length.unwrap()`: the end-of-stream test of read.
at_end_of_stream(h) == h.position >= unwrap(h.length)

\* A faulty variant of read_range: the inclusive end is taken one too far.
read_range_one_too_far(h, n, checks) ==
    LET sum == unsigned_add(h.position, n, checks)
    IN  IF sum.panic THEN [panic |-> TRUE, range |-> None]
        ELSE [panic |-> FALSE, range |-> Some(<<h.position, sum.val>>)]

\* `self.position..=(self.position + num_bytes_to_read - 1)`: the range read
\* asks for, or an abort of the call.
read_range(h, n, checks) ==
    LET sum == unsigned_add(h.position, n, checks)
        end == IF sum.panic THEN Abort ELSE unsigned_sub(sum.val, 1, checks)
    IN  IF end.panic THEN [panic |-> TRUE, range |-> None]
        ELSE [panic |-> FALSE, range |-> Some(<<h.position, end.val>>)]

\* The io::ErrorKind read gives an error of get_range; the last arm is the
\* unreachable!() of read.
read_error_kind(ooe) ==
    IF ooe.variant = "GetObject"
      THEN IF ooe.sdk = "TimeoutError" THEN IoErr("TimedOut")
           ELSE IF ooe.sdk \in {"ConstructionFailure", "DispatchFailure", "ResponseError"}
             THEN IoErr("Other")
           ELSE IF ooe.sdk = "ServiceError"
             THEN IF ooe.kind = "InvalidObjectState" THEN IoErr("InvalidData")
                  ELSE IF ooe.kind = "NoSuchKey" THEN IoErr("NotFound")
                  ELSE IF ooe.kind = "Unhandled" THEN IoErr("Other")
                  ELSE IoErr("Other")
           ELSE IoErr("Other")
    ELSE IoPanic

\* A faulty variant of read_collect_failed: the position is moved although
\* no byte was delivered.
read_collect_failed_moves(h) ==
    [h |-> [h EXCEPT !.position = h.position + 1], res |-> IoErr("Other"), bytes |-> <<>>]

\* The handle after `byte_stream.collect()` failed.
read_collect_failed(h) == [h |-> h, res |-> IoErr("Other"), bytes |-> <<>>]

\* A faulty variant of read_copy: the position is not advanced.
read_copy_stays(h, n, body, checks) ==
    IF Len(body) > n THEN [h |-> h, res |-> IoPanic, bytes |-> <<>>]
    ELSE [h |-> h, res |-> IoOk(Len(body)), bytes |-> body]

\* The Ok(agg_bytes) arm of read: copy the bytes received into a buffer of n
\* bytes and advance the position.
read_copy(h, n, body, checks) ==
    LET received_num_bytes == Len(body)
        moved == unsigned_add(h.position, received_num_bytes, checks)
    IN  IF received_num_bytes > n
          THEN [h |-> h, res |-> IoPanic, bytes |-> <<>>]
        ELSE IF moved.panic
          THEN [h |-> h, res |-> IoPanic, bytes |-> body]
        ELSE [h |-> [h EXCEPT !.position = moved.val],
              res |-> IoOk(received_num_bytes),
              bytes |-> body]

\* Read::read with a buffer of n bytes.  env says how the requests of the
\* call go: env.head (the implicit HeadObject), env.get, env.policy and
\* env.drain (the ranged GetObject and its body).
read(h, n, rem, env, checks) ==
    LET pre == implicit_refresh(h, rem, env.head)
        Stop(res) == [h |-> pre.h, res |-> res, bytes |-> <<>>, reqs |-> pre.reqs,
                      ooe |-> pre.ooe]
    IN  IF pre.failed THEN Stop(IoErr(pre.kind))
        ELSE IF pre.h.length = None THEN Stop(IoPanic)
        ELSE IF at_end_of_stream(pre.h) THEN Stop(IoOk(0))
        ELSE LET rr == read_range(pre.h, n, checks)
             IN  IF rr.panic THEN Stop(IoPanic)
                 ELSE LET resp == GetObject(rem, rr.range, env.get, env.policy, env.drain)
                          got == get_range(pre.h, resp)
                          out == IF ~got.ok
                                   THEN [h |-> pre.h, res |-> read_error_kind(got.err),
                                         bytes |-> <<>>]
                                 ELSE IF resp.stream # "Ok"
                                   THEN read_collect_failed(pre.h)
                                 ELSE read_copy(pre.h, n, resp.body, checks)
                      IN  [h |-> out.h, res |-> out.res, bytes |-> out.bytes,
                           reqs |-> Append(pre.reqs, GetRequest(rr.range)),
                           ooe |-> got.err]

\* ------------------------------------------------------------------------
\* impl Seek for Object
\* ------------------------------------------------------------------------

\* The closing `u64::try_from(self.position)` of seek.
seek_return(h) ==
    IF FitsU64(h.position) THEN [h |-> h, res |-> IoOk(h.position)]
    ELSE [h |-> h, res |-> IoErr("Other")]

\* A faulty variant of seek_start: no clamping to the length.
seek_start_unclamped(h, s) ==
    IF ~FitsUsize(s) THEN [h |-> h, res |-> IoErr("Other")]
    ELSE seek_return([h EXCEPT !.position = s])

\* The SeekFrom::Start(s) arm, length resolved.
seek_start(h, s) ==
    IF ~FitsU64(unwrap(h.length)) THEN [h |-> h, res |-> IoErr("Other")]
    ELSE IF s > unwrap(h.length)
      THEN seek_return([h EXCEPT !.position = unwrap(h.length)])
    ELSE IF ~FitsUsize(s) THEN [h |-> h, res |-> IoErr("Other")]
    ELSE seek_return([h EXCEPT !.position = s])

\* A faulty variant of seek_end_forward: the offset is taken from the start.
seek_end_forward_from_start(h, s) == seek_start(h, s)

\* The SeekFrom::End(s) arm with s >= 0: `return self.seek(SeekFrom::Start(length))`
\* (the nested call finds the length resolved and sends nothing).
seek_end_forward(h, s) ==
    IF ~FitsU64(unwrap(h.length)) THEN [h |-> h, res |-> IoErr("Other")]
    ELSE seek_start(h, unwrap(h.length))

\* The SeekFrom::End(s) arm with s < 0.
seek_end_backward(h, s, checks) ==
    LET neg == signed_neg(s, checks)
    IN  IF neg.panic THEN [h |-> h, res |-> IoPanic]
        ELSE IF ~FitsUsize(neg.val) THEN [h |-> h, res |-> IoErr("Other")]
        ELSE IF neg.val > unwrap(h.length) THEN [h |-> h, res |-> IoErr("InvalidInput")]
        ELSE seek_return([h EXCEPT !.position = unwrap(h.length) - neg.val])

\* The SeekFrom::Current(s) arm with s >= 0:
\* `return self.seek(SeekFrom::Start(position + s))`.
seek_current_forward(h, s, checks) ==
    IF ~FitsU64(h.position) THEN [h |-> h, res |-> IoErr("Other")]
    ELSE LET sum == unsigned_add(h.position, s, checks)
         IN  IF sum.panic THEN [h |-> h, res |-> IoPanic]
             ELSE seek_start(h, sum.val)

\* The SeekFrom::Current(s) arm with s < 0.
seek_current_backward(h, s, checks) ==
    LET neg == signed_neg(s, checks)
    IN  IF neg.panic THEN [h |-> h, res |-> IoPanic]
        ELSE IF ~FitsUsize(neg.val) THEN [h |-> h, res |-> IoErr("Other")]
        ELSE IF neg.val > h.position THEN [h |-> h, res |-> IoErr("InvalidInput")]
        ELSE seek_return([h EXCEPT !.position = h.position - neg.val])

\* Seek::seek(pos), pos = [whence, offset].  head says how the implicit
\* HeadObject of the call goes.
seek(h, pos, rem, head, checks) ==
    LET pre == implicit_refresh(h, rem, head)
        out == IF pre.failed THEN [h |-> pre.h, res |-> IoErr(pre.kind)]
               ELSE IF pre.h.length = None THEN [h |-> pre.h, res |-> IoPanic]
               ELSE IF pos.whence = "Start" THEN seek_start(pre.h, pos.offset)
               ELSE IF pos.whence = "End"
                 THEN IF pos.offset >= 0 THEN seek_end_forward(pre.h, pos.offset)
                      ELSE seek_end_backward(pre.h, pos.offset, checks)
               ELSE IF pos.offset >= 0 THEN seek_current_forward(pre.h, pos.offset, checks)
                    ELSE seek_current_backward(pre.h, pos.offset, checks)
    IN  [h |-> out.h, res |-> out.res, bytes |-> <<>>, reqs |-> pre.reqs, ooe |-> pre.ooe]

\* ------------------------------------------------------------------------
\* Inputs of the calls
\* ------------------------------------------------------------------------

\* Buffer sizes handed to read.
BufLens == 0..MaxBuf

\* Offsets handed to seek: around zero and the object's size, and the ends
\* of the integer types.
UnsignedOffsets == (0..(MaxObj + 1)) \cup {U64_MAX}
SignedOffsets == ((-(MaxObj + 1))..(MaxObj + 1)) \cup {I64_MIN, I64_MAX}

SeekFrom ==
    [whence : {"Start"}, offset : UnsignedOffsets]
        \cup [whence : {"End", "Current"}, offset : SignedOffsets]

\* How the requests of a call go.  head, get: the outcome of the HeadObject
\* and of the GetObject request ("NoRequest": none is sent or none is
\* reached); policy: what the service does with a malformed range; drain:
\* whether the body can be collected; checks: whether the build aborts on
\* arithmetic overflow (TRUE) or wraps (FALSE).
Env(hd, gt, pol, dr, ch) ==
    [head |-> hd, get |-> gt, policy |-> pol, drain |-> dr, checks |-> ch]

HeadFailures == HeadOutcomes \ {"Ok"}
GetFailures == GetOutcomes \ {"Ok"}

\* The implicit HeadObject of read and seek is sent iff the length is unresolved.
HeadSuccess(h) == IF h.length = None THEN "Ok" ELSE "NoRequest"
ImplicitHeadFailures(h) == IF h.length = None THEN HeadFailures ELSE {}

\* Both builds are considered where the call's arithmetic can overflow.
ReadBuilds(h, n) == IF h.position + n = 0 \/ h.position + n > USIZE_MAX THEN BOOLEAN ELSE {TRUE}
SeekBuilds(h, pos) ==
    IF pos.whence # "Start" /\ (pos.offset = I64_MIN \/ h.position + pos.offset > U64_MAX)
      THEN BOOLEAN ELSE {TRUE}

ReadEnvs(h, n) ==
    {Env(f, "NoRequest", "ignore", "Ok", TRUE) : f \in ImplicitHeadFailures(h)}
        \cup {Env(HeadSuccess(h), g, "ignore", "Ok", TRUE) : g \in GetFailures}
        \cup {Env(HeadSuccess(h), "Ok", p, d, c) :
                p \in IF n = 0 THEN BadRangePolicies ELSE {"ignore"},
                d \in CollectOutcomes,
                c \in ReadBuilds(h, n)}

SeekEnvs(h, pos) ==
    {Env(f, "NoRequest", "ignore", "Ok", TRUE) : f \in ImplicitHeadFailures(h)}
        \cup {Env(HeadSuccess(h), "NoRequest", "ignore", "Ok", c) : c \in SeekBuilds(h, pos)}

HeadEnvs == {Env(f, "NoRequest", "ignore", "Ok", TRUE) : f \in HeadOutcomes}
GetEnvs == {Env("NoRequest", g, "ignore", "Ok", TRUE) : g \in GetOutcomes}
NoEnv == Env("NoRequest", "NoRequest", "ignore", "Ok", TRUE)

\* Every request of the call succeeds.
Succeeding(envs) ==
    {e \in envs : e.head \in {"Ok", "NoRequest"} /\ e.get \in {"Ok", "NoRequest"}
                  /\ e.drain = "Ok" /\ e.policy = "ignore"}

\* ------------------------------------------------------------------------
\* The end-to-end scenario of the specification
\* ------------------------------------------------------------------------

\* The object "0123456789" and the calls made on it, in order.
ScenarioContent == <<0, 1, 2, 3, 4, 5, 6, 7, 8, 9>>

Call(op, whence, offset, buf_len) ==
    [op |-> op, whence |-> whence, offset |-> offset, buf_len |-> buf_len]

Scenario ==
    << Call("seek", "Start", 5, 0),
       Call("read", "", 0, 3),
       Call("seek", "End", -2, 0),
       Call("read", "", 0, 5),
       Call("read", "", 0, 5),
       Call("seek", "Start", 100, 0) >>

ScenarioBufLens == {Scenario[i].buf_len : i \in {j \in DOMAIN Scenario : Scenario[j].op = "read"}}
ScenarioSeeks ==
    {[whence |-> Scenario[i].whence, offset |-> Scenario[i].offset] :
        i \in {j \in DOMAIN Scenario : Scenario[j].op = "seek"}}

\* The remote object is the scenario's object.
IsScenarioObject(rem) ==
    /\ rem.len = Len(ScenarioContent)
    /\ ObjectBytes(rem, 0, rem.len - 1) = ScenarioContent

\* step counts the calls made so far when they are exactly the first calls of
\* the scenario, all served without failure by the scenario's object; it is
\* -1 once the run has left the scenario.
Follow(s, call, rem, env) ==
    IF /\ s >= 0
       /\ s < Len(Scenario)
       /\ call = Scenario[s + 1]
       /\ IsScenarioObject(rem)
       /\ env.head \in {"Ok", "NoRequest"}
       /\ env.get \in {"Ok", "NoRequest"}
       /\ env.drain = "Ok"
      THEN s + 1
      ELSE -1

\* ------------------------------------------------------------------------
\* The state machine
\* ------------------------------------------------------------------------

NoCall == Call("new", "", 0, 0)

\* No call is in progress: nothing is in flight.
Idle == [pc |-> "idle", call |-> NoCall, reqs |-> <<>>, inflight |-> <<>>, body |-> None]

\* The caller's loop has not started.
NotStarted == [started |-> FALSE, from |-> 0, bytes |-> <<>>]

\* What is observed of a call: the call, the handle and the service before
\* it, how its requests went, the requests it sent, and what it returned.
Observation(call, h, rem, env, out) ==
    [call |-> call, pre |-> h, at |-> rem, env |-> env,
     res |-> out.res, bytes |-> out.bytes, reqs |-> out.reqs, ooe |-> out.ooe]

Quiet(h) == [h |-> h, res |-> IoOk(0), bytes |-> <<>>, reqs |-> <<>>, ooe |-> NoError]

Init ==
    /\ position = new.position
    /\ length = new.length
    /\ last_modified = new.last_modified
    /\ remote_len \in 0..MaxObj
    /\ remote_mtime = 0
    /\ last = Observation(NoCall, new, [len |-> remote_len, mtime |-> 0], NoEnv, Quiet(new))
    /\ step = 0
    /\ run = Idle
    /\ loop = NotStarted

\* A call returns: the handle is as the call left it, and the call is observed.
Return(call, env, out) ==
    /\ position' = out.h.position
    /\ length' = out.h.length
    /\ last_modified' = out.h.last_modified
    /\ last' = Observation(call, self, remote, env, out)
    /\ step' = Follow(step, call, remote, env)
    /\ UNCHANGED <<remote_len, remote_mtime>>

\* The Result of an asynchronous operation, as observed.
Observed(r) == IF r.ok THEN IoOk(0) ELSE IoErr(r.err.variant)

DoRead(n, env) ==
    \E out \in {read(self, n, remote, env, env.checks)} :
        Return(Call("read", "", 0, n), env, out)

DoSeek(pos, env) ==
    \E out \in {seek(self, pos, remote, env.head, env.checks)} :
        Return(Call("seek", pos.whence, pos.offset, 0), env, out)

\* A caller reads into a buffer.
Read ==
    \E n \in BufLens : \E env \in ReadEnvs(self, n) :
        DoRead(n, env) /\ UNCHANGED <<run, loop>>

\* A caller seeks.
Seek ==
    \E pos \in SeekFrom : \E env \in SeekEnvs(self, pos) :
        DoSeek(pos, env) /\ UNCHANGED <<run, loop>>

\* A caller refreshes the metadata explicitly.
RefreshMetadata ==
    \E env \in HeadEnvs :
        LET req == head_object_request(self)
            r == refresh_metadata(self, HeadObject(remote, req.if_modified_since, env.head))
        IN  /\ Return(Call("refresh_metadata", "", 0, 0), env,
                      [h |-> r.h, res |-> Observed(r.res), bytes |-> <<>>,
                       reqs |-> <<req>>, ooe |-> r.res.err])
            /\ UNCHANGED <<run, loop>>

\* A caller fetches the whole object.
Get ==
    \E env \in GetEnvs :
        LET r == get(self, GetObject(remote, None, env.get, env.policy, env.drain))
        IN  /\ Return(Call("get", "", 0, 0), env,
                      [h |-> self, res |-> Observed(r), bytes |-> <<>>,
                       reqs |-> <<GetRequest(None)>>, ooe |-> r.err])
            /\ UNCHANGED <<run, loop>>

\* A caller asks for an async reader over the whole object.
Reader ==
    \E env \in GetEnvs :
        LET r == reader(self, GetObject(remote, None, env.get, env.policy, env.drain))
        IN  /\ Return(Call("reader", "", 0, 0), env,
                      [h |-> self, res |-> Observed(r), bytes |-> <<>>,
                       reqs |-> <<GetRequest(None)>>, ooe |-> r.err])
            /\ UNCHANGED <<run, loop>>

\* Somebody else overwrites the remote object: a new size, a later time.
RemoteChange ==
    /\ remote_mtime < MaxTime
    /\ remote_len' \in 0..MaxObj
    /\ remote_mtime' = remote_mtime + 1
    /\ last' = Observation(Call("remote_change", "", 0, 0), self,
                           [len |-> remote_len', mtime |-> remote_mtime'], NoEnv, Quiet(self))
    /\ step' = -1
    /\ UNCHANGED <<position, length, last_modified, run, loop>>

Next == Read \/ Seek \/ RefreshMetadata \/ Get \/ Reader \/ RemoteChange

Spec == Init /\ [][Next]_vars

\* The setting of the scenario: a fresh handle on the object "0123456789",
\* which nobody changes, and every request succeeding.
SteadyInit ==
    /\ position = new.position
    /\ length = new.length
    /\ last_modified = new.last_modified
    /\ remote_len = Len(ScenarioContent)
    /\ remote_mtime = 0
    /\ last = Observation(NoCall, new, [len |-> remote_len, mtime |-> 0], NoEnv, Quiet(new))
    /\ step = 0
    /\ run = Idle
    /\ loop = NotStarted

SteadyRead ==
    \E n \in BufLens \cup ScenarioBufLens :
        \E env \in Succeeding(ReadEnvs(self, n)) : DoRead(n, env) /\ UNCHANGED <<run, loop>>

SteadySeek ==
    \E pos \in SeekFrom \cup ScenarioSeeks :
        \E env \in Succeeding(SeekEnvs(self, pos)) : DoSeek(pos, env) /\ UNCHANGED <<run, loop>>

SteadyNext == SteadyRead \/ SteadySeek

SteadySpec == SteadyInit /\ [][SteadyNext]_vars

\* ------------------------------------------------------------------------
\* One call, request by request
\* ------------------------------------------------------------------------

\* `request.send()`: the request is on its way to the service.
send(inflight, req) == Append(inflight, req)

\* A faulty variant of block_on: the call goes on while the request is
\* still on its way.
block_on_detached(inflight) == inflight

\* `rt.block_on(future)`: the calling thread waits until the request last
\* sent has been answered.
block_on(inflight) == SubSeq(inflight, 1, Len(inflight) - 1)

\* read or seek is entered: `if self.length.is_none()` decides whether the
\* metadata is requested first.
Enter(h, call, next) ==
    IF h.length = None
      THEN [pc |-> "refresh", call |-> call,
            reqs |-> <<head_object_request(h)>>,
            inflight |-> send(<<>>, head_object_request(h)),
            body |-> None]
    ELSE [pc |-> next, call |-> call, reqs |-> <<>>, inflight |-> <<>>, body |-> None]

\* The call returns or aborts; what is still on its way stays so.
Leave(inflight, body) == [Idle EXCEPT !.inflight = inflight, !.body = body]

CallRead ==
    /\ run.pc = "idle"
    /\ \E n \in BufLens : run' = Enter(self, Call("read", "", 0, n), "check")
    /\ UNCHANGED <<position, length, last_modified, remote_len, remote_mtime,
                   last, step, loop>>

CallSeek ==
    /\ run.pc = "idle"
    /\ \E pos \in SeekFrom :
          run' = Enter(self, Call("seek", pos.whence, pos.offset, 0), "move")
    /\ UNCHANGED <<position, length, last_modified, remote_len, remote_mtime,
                   last, step, loop>>

\* The HeadObject request of the call is answered and refresh_metadata ends.
RefreshDone ==
    /\ run.pc = "refresh"
    /\ \E how \in HeadOutcomes :
          LET req == run.inflight[Len(run.inflight)]
              r == refresh_metadata(self, HeadObject(remote, req.if_modified_since, how))
          IN  /\ length' = r.h.length
              /\ last_modified' = r.h.last_modified
              /\ run' = IF r.res.ok
                          THEN [run EXCEPT !.pc = IF run.call.op = "read"
                                                    THEN "check" ELSE "move",
                                           !.inflight = block_on(run.inflight)]
                          ELSE Leave(block_on(run.inflight), run.body)
    /\ UNCHANGED <<position, remote_len, remote_mtime, last, step, loop>>

\* read, past the refresh: end of stream, or the range is computed and the
\* GetObject request sent.
ReadCheck ==
    /\ run.pc = "check"
    /\ \E checks \in ReadBuilds(self, run.call.buf_len) :
          LET rr == read_range(self, run.call.buf_len, checks)
          IN  run' = IF length = None \/ at_end_of_stream(self) \/ rr.panic
                       THEN Leave(run.inflight, run.body)
                     ELSE [run EXCEPT !.pc = "fetch",
                                      !.reqs = Append(run.reqs, GetRequest(rr.range)),
                                      !.inflight = send(run.inflight, GetRequest(rr.range))]
    /\ UNCHANGED <<position, length, last_modified, remote_len, remote_mtime,
                   last, step, loop>>

\* The GetObject request is answered: an error ends the call, a response
\* leaves its body to be drained.
FetchDone ==
    /\ run.pc = "fetch"
    /\ \E how \in GetOutcomes : \E policy \in BadRangePolicies :
          LET req == run.inflight[Len(run.inflight)]
              resp == GetObject(remote, req.range, how, policy, "Ok")
              got == get_range(self, resp)
          IN  run' = IF got.ok
                       THEN [run EXCEPT !.pc = "collect",
                                        !.inflight = block_on(run.inflight),
                                        !.body = Some(resp.body)]
                     ELSE Leave(block_on(run.inflight), run.body)
    /\ UNCHANGED <<position, length, last_modified, remote_len, remote_mtime,
                   last, step, loop>>

\* `rt.block_on(byte_stream.collect())` ends: the body is copied and the
\* position advanced, or the call fails.
CollectDone ==
    /\ run.pc = "collect"
    /\ \E drain \in CollectOutcomes : \E checks \in ReadBuilds(self, run.call.buf_len) :
          LET out == IF drain = "Ok"
                       THEN read_copy(self, run.call.buf_len, unwrap(run.body), checks)
                     ELSE read_collect_failed(self)
          IN  /\ position' = out.h.position
              /\ run' = Leave(run.inflight, None)
    /\ UNCHANGED <<length, last_modified, remote_len, remote_mtime, last, step, loop>>

\* seek, past the refresh: the position is moved.
SeekMove ==
    /\ run.pc = "move"
    /\ length # None
    /\ LET pos == [whence |-> run.call.whence, offset |-> run.call.offset]
       IN  \E checks \in SeekBuilds(self, pos) :
              /\ position' = seek(self, pos, remote, "NoRequest", checks).h.position
              /\ run' = Leave(run.inflight, run.body)
    /\ UNCHANGED <<length, last_modified, remote_len, remote_mtime, last, step, loop>>

CallNext ==
    \/ CallRead
    \/ CallSeek
    \/ RefreshDone
    \/ ReadCheck
    \/ FetchDone
    \/ CollectDone
    \/ SeekMove
    \/ RemoteChange

CallSpec == Init /\ [][CallNext]_vars

\* ------------------------------------------------------------------------
\* A caller reading to the end
\* ------------------------------------------------------------------------

\* Before its loop the caller may seek once, anywhere.
LoopSeek ==
    /\ ~loop.started
    /\ last.call = NoCall
    /\ \E pos \in SeekFrom \cup ScenarioSeeks :
          \E env \in Succeeding(SeekEnvs(self, pos)) : DoSeek(pos, env)
    /\ UNCHANGED <<run, loop>>

\* One turn of the loop: a read into a non-empty buffer, every request
\* succeeding; the caller appends what it was given.
LoopRead ==
    \E n \in (BufLens \cup ScenarioBufLens) \ {0} :
        \E env \in Succeeding(ReadEnvs(self, n)) :
            \E out \in {read(self, n, remote, env, env.checks)} :
                /\ Return(Call("read", "", 0, n), env, out)
                /\ loop' = [started |-> TRUE,
                            from |-> IF loop.started THEN loop.from ELSE position,
                            bytes |-> loop.bytes \o out.bytes]
                /\ UNCHANGED run

LoopNext == LoopSeek \/ LoopRead

\* The caller keeps calling read.
LoopSpec == SteadyInit /\ [][LoopNext]_vars /\ WF_vars(LoopRead)

\* ------------------------------------------------------------------------
\* Properties
\* ------------------------------------------------------------------------

IsRead == last.call.op = "read"
IsSeek(whence) == last.call.op = "seek" /\ last.call.whence = whence

\* The implicit refresh of the last call, if any, did not fail.
RefreshPassed == last.env.head \in {"Ok", "NoRequest"}

\* The requests of the given api among the requests the last call sent.
Sent(api) == {i \in DOMAIN last.reqs : last.reqs[i].api = api}

\* What the scenario's calls yield, in order: the value returned, the bytes
\* put in the buffer, the position afterwards.
Yield(value, bytes, pos) == [value |-> value, bytes |-> bytes, position |-> pos]

ScenarioYields ==
    << Yield(5, <<>>, 5),
       Yield(3, <<5, 6, 7>>, 8),
       Yield(8, <<>>, 8),
       Yield(2, <<8, 9>>, 10),
       Yield(0, <<>>, 10),
       Yield(10, <<>>, 10) >>

\* C1: on a fresh handle over the unchanged object "0123456789", with every
\* request succeeding, seek(Start,5); read(3); seek(End,-2); read(5); read(5);
\* seek(Start,100) yield position 5; 3 bytes "567" and position 8; position 8;
\* 2 bytes "89" and position 10; 0 bytes and position 10; position 10.
C1_Scenario ==
    step >= 1 =>
        /\ last.res = IoOk(ScenarioYields[step].value)
        /\ last.bytes = ScenarioYields[step].bytes
        /\ position = ScenarioYields[step].position

\* The whole scenario has been run.
C1_Witness == step = Len(Scenario)

\* C2: a successful read entered with position < length returns the number
\* of bytes copied, advances the position by exactly that number, and that
\* number is at most the buffer's size and at most length - position.
C2_ReadWithinLength ==
    (IsRead /\ last.res.status = "Ok" /\ length # None
        /\ last.pre.position < unwrap(length)) =>
        /\ last.res.value = Len(last.bytes)
        /\ position = last.pre.position + last.res.value
        /\ last.res.value <= last.call.buf_len
        /\ last.res.value <= unwrap(length) - last.pre.position

\* C3: read called with the length resolved and position >= length returns
\* Ok(0), leaves the position unchanged and sends no range request.
C3_ReadAtEnd ==
    (IsRead /\ last.pre.length # None
        /\ last.pre.position >= unwrap(last.pre.length)) =>
        /\ last.res = IoOk(0)
        /\ position = last.pre.position
        /\ Sent("GetObject") = {}

\* A read at position = length > 0 has returned.
C3_Witness ==
    /\ IsRead
    /\ last.pre.length # None
    /\ last.pre.position = unwrap(last.pre.length)
    /\ last.pre.position > 0
    /\ last.call.buf_len > 0
    /\ last.res = IoOk(0)

\* C4: seek(Start, s), with the length resolved or resolved by a successful
\* implicit refresh, succeeds and sets the position to, and returns,
\* min(s, length).
C4_SeekStart ==
    (IsSeek("Start") /\ RefreshPassed) =>
        /\ length # None
        /\ last.res = IoOk(Min(last.call.offset, unwrap(length)))
        /\ position = Min(last.call.offset, unwrap(length))

\* A seek from the start past the end of a non-empty object, away from the
\* end, has been clamped.
C4_Witness ==
    /\ IsSeek("Start")
    /\ length # None
    /\ last.call.offset > unwrap(length)
    /\ unwrap(length) > 0
    /\ last.pre.position < unwrap(length)
    /\ last.res = IoOk(unwrap(length))

\* C5: for every s < 0, seek(End, s) sets the position to length - |s| and
\* returns it when |s| <= length, and otherwise fails with InvalidInput and
\* leaves the position unchanged.
C5_SeekEndBackward ==
    (IsSeek("End") /\ last.call.offset < 0 /\ RefreshPassed) =>
        /\ length # None
        /\ IF -last.call.offset <= unwrap(length)
             THEN /\ last.res = IoOk(unwrap(length) + last.call.offset)
                  /\ position = unwrap(length) + last.call.offset
             ELSE /\ last.res = IoErr("InvalidInput")
                  /\ position = last.pre.position

\* C6: for every s < 0, seek(Current, s) sets the position to position - |s|
\* and returns it when |s| <= position, and otherwise fails with InvalidInput
\* and leaves the position unchanged.
C6_SeekCurrentBackward ==
    (IsSeek("Current") /\ last.call.offset < 0 /\ RefreshPassed) =>
        IF -last.call.offset <= last.pre.position
          THEN /\ last.res = IoOk(last.pre.position + last.call.offset)
               /\ position = last.pre.position + last.call.offset
          ELSE /\ last.res = IoErr("InvalidInput")
               /\ position = last.pre.position

\* The length the last call worked with: the cached one, or the one its
\* implicit refresh resolved (0 when that refresh failed).
WorkingLength ==
    LET pre == implicit_refresh(last.pre, last.at, last.env.head)
    IN  IF pre.h.length = None THEN 0 ELSE unwrap(pre.h.length)

\* What seek(Start, s) yields from the state and under the environment of
\* the last call.
StartInstead(s) ==
    seek(last.pre, [whence |-> "Start", offset |-> s], last.at, last.env.head, last.env.checks)

\* C7: for every s >= 0, seek(End, s) gives the result, position, length and
\* last_modified that seek(Start, length) gives from the same state; the
\* position becomes the length.
C7_SeekEndForward ==
    (IsSeek("End") /\ last.call.offset >= 0) =>
        /\ last.res = StartInstead(WorkingLength).res
        /\ self = StartInstead(WorkingLength).h
        /\ RefreshPassed => (length # None /\ position = unwrap(length))

\* A seek to a positive offset from the end, on a fresh handle over a
\* non-empty object, has moved the position to the end.
C7_Witness ==
    /\ IsSeek("End")
    /\ last.call.offset > 0
    /\ last.pre.length = None
    /\ last.res.status = "Ok"
    /\ position > 0

\* C8: for every s >= 0, seek(Current, s) gives the result and state that
\* seek(Start, position + s) gives from the same state, the new position is
\* min(position + s, length), and seek(Current, 0) returns the current
\* position.
C8_SeekCurrentForward ==
    (IsSeek("Current") /\ last.call.offset >= 0) =>
        /\ last.res = StartInstead(last.pre.position + last.call.offset).res
        /\ self = StartInstead(last.pre.position + last.call.offset).h
        /\ RefreshPassed =>
              /\ length # None
              /\ position = Min(last.pre.position + last.call.offset, unwrap(length))
              /\ last.call.offset = 0 => last.res = IoOk(last.pre.position)

\* C9: a read that returns an error leaves the position unchanged, wherever
\* it failed: in the implicit refresh, in the range request, or in draining
\* the body.
C9_FailedReadKeepsPosition ==
    (IsRead /\ last.res.status = "Err") => position = last.pre.position

\* A read below the end whose body could not be drained has returned.
C9_Witness ==
    /\ IsRead
    /\ last.res.status = "Err"
    /\ last.env.get = "Ok"
    /\ last.env.drain = "Err"
    /\ Sent("GetObject") # {}

\* The stream-error kind the specification's table gives a remote error.
TableKind(ooe) ==
    IF ooe.variant = "Other" THEN "Other"
    ELSE IF ooe.sdk = "TimeoutError" THEN "TimedOut"
    ELSE IF ooe.sdk \in {"ConstructionFailure", "DispatchFailure", "ResponseError"} THEN "Other"
    ELSE IF ooe.kind = "InvalidObjectState" THEN "InvalidData"
    ELSE IF ooe.kind \in {"NoSuchKey", "NotFound"} THEN "NotFound"
    ELSE "Other"

\* C10: a remote error surfacing through read or seek, from the implicit
\* refresh as well as from the range request, has the kind the table gives.
C10_ErrorKinds ==
    (last.call.op \in {"read", "seek"} /\ last.res.status = "Err"
        /\ last.ooe.variant # "") =>
        last.res.kind = TableKind(last.ooe)

\* The answer the service gave the HeadObject request of the last call.
HeadAnswer ==
    HeadObject(last.at, last.reqs[1].if_modified_since, last.env.head)

\* The last call sent a HeadObject request and got fresh metadata that fit.
RefreshedFresh ==
    /\ Sent("HeadObject") # {}
    /\ HeadAnswer.sdk = "Ok"
    /\ HeadAnswer.content_length >= 0
    /\ HeadAnswer.content_length <= USIZE_MAX

\* C11: across get, reader, refresh_metadata, read and seek, the cached
\* length changes only in a step whose metadata refresh (explicit or
\* implicit) got fresh metadata; a refresh that ends in not-modified, in an
\* error or in a content length that does not fit leaves it unchanged; and
\* the length never returns to None.
C11_LengthChanges ==
    /\ length # last.pre.length => RefreshedFresh
    /\ (Sent("HeadObject") # {} /\ ~RefreshedFresh) => length = last.pre.length
    /\ last.pre.length # None => length # None

\* An explicit refresh has replaced one cached length by another.
C11_Witness ==
    /\ last.call.op = "refresh_metadata"
    /\ last.pre.length # None
    /\ length # None
    /\ length # last.pre.length

\* C12: with the length resolved, refresh_metadata against an object that
\* has not changed since it was cached returns success and leaves length,
\* last_modified and position as they were.
C12_RefreshUnchanged ==
    (last.call.op = "refresh_metadata"
        /\ last.pre.length # None
        /\ last.pre.last_modified = Some(last.at.mtime)
        /\ last.env.head = "Ok") =>
        /\ last.res = IoOk(0)
        /\ self = last.pre

\* A conditional refresh of a moved handle over a non-empty, unchanged
\* object has returned.
C12_Witness ==
    /\ last.call.op = "refresh_metadata"
    /\ last.pre.length # None
    /\ last.pre.last_modified = Some(last.at.mtime)
    /\ last.env.head = "Ok"
    /\ last.reqs[1].if_modified_since # None
    /\ position > 0
    /\ last.res.status = "Ok"

\* The position a seek is to reach, computed exactly over the integers from
\* the position p and length n it starts from; -1 when there is none.
ExactSeek(whence, s, p, n) ==
    IF whence = "Start" THEN Min(s, n)
    ELSE IF whence = "End"
      THEN IF s >= 0 THEN n ELSE IF -s > n THEN -1 ELSE n + s
    ELSE IF s >= 0 THEN Min(p + s, n)
         ELSE IF -s > p THEN -1 ELSE p + s

\* C13: for every seek reference and every offset of its integer type, the
\* most negative one included, seek returns the exact new position or a
\* reported error; nothing wraps silently and nothing aborts the call.
C13_SeekExactOrError ==
    (last.call.op = "seek" /\ RefreshPassed) =>
        /\ last.res.status \in {"Ok", "Err"}
        /\ last.res.status = "Ok" =>
              /\ length # None
              /\ last.res.value =
                    ExactSeek(last.call.whence, last.call.offset,
                              last.pre.position, unwrap(length))
              /\ position = last.res.value

\* C15: a read or seek sends a metadata request exactly when the length is
\* None at entry, at most once, before any range fetch or position change;
\* with the length resolved it sends none and keeps the cached length even
\* if the remote object has changed.
C15_ImplicitRefresh ==
    (IsRead \/ last.call.op = "seek") =>
        /\ Sent("HeadObject") = IF last.pre.length = None THEN {1} ELSE {}
        /\ ~RefreshPassed =>
              /\ Sent("GetObject") = {}
              /\ position = last.pre.position
        /\ last.pre.length # None => length = last.pre.length

\* A read with the length resolved has fetched a range from an object whose
\* length is no longer the cached one.
C15_Witness ==
    /\ IsRead
    /\ last.pre.length # None
    /\ last.at.len # unwrap(last.pre.length)
    /\ Sent("GetObject") # {}
    /\ last.res.status = "Ok"

\* C16: a metadata request carries if-modified-since, with exactly the
\* cached timestamp, if and only if last_modified is cached; a handle that
\* has never completed a fresh refresh sends an unconditional request.
C16_Conditional ==
    /\ \A i \in Sent("HeadObject") :
          last.reqs[i].if_modified_since = last.pre.last_modified
    /\ last.pre.length = None => last.pre.last_modified = None

\* A conditional metadata request has been sent.
C16_Witness ==
    /\ Sent("HeadObject") # {}
    /\ last.pre.last_modified # None
    /\ last.reqs[1].if_modified_since = last.pre.last_modified

\* C17: the unreachable!() arm of read is never reached: a failure of the
\* range fetch is always of the GetObject kind.
C17_Unreachable ==
    (IsRead /\ Sent("GetObject") # {} /\ last.ooe.variant # "") =>
        /\ last.ooe.variant = "GetObject"
        /\ read_error_kind(last.ooe) # IoPanic
        /\ last.res = read_error_kind(last.ooe)

\* The range fetch of a read has failed.
C17_Witness ==
    /\ IsRead
    /\ Sent("GetObject") # {}
    /\ last.ooe.variant = "GetObject"
    /\ last.res.status = "Err"

\* C18: whenever the length is resolved, the position is at most the length.
C18_PositionWithinLength ==
    length # None => position <= unwrap(length)

\* C20: a read into an empty buffer while the position is below the length
\* returns Ok(0) and leaves the position unchanged, without abort.
C20_EmptyBuffer ==
    (IsRead /\ last.call.buf_len = 0 /\ RefreshPassed
        /\ length # None /\ last.pre.position < unwrap(length)) =>
        /\ last.res = IoOk(0)
        /\ position = last.pre.position

\* The remote exchanges of the handle that have not ended: requests not yet
\* answered and a response body not yet drained.
Outstanding == Len(run.inflight) + (IF run.body # None THEN 1 ELSE 0)

\* C14: a handle never has more than one remote request in flight: within
\* one read the metadata request has completed before the range fetch is
\* sent, the range fetch has completed before the body is drained, and
\* nothing is outstanding when the call returns (or between its steps).
C14_OneRequestInFlight ==
    /\ Outstanding <= 1
    /\ run.pc \in {"idle", "check", "move"} => Outstanding = 0
    /\ run.pc = "refresh" =>
          /\ run.body = None
          /\ run.inflight = <<run.reqs[1]>>
          /\ run.reqs[1].api = "HeadObject"
    /\ run.pc = "fetch" =>
          /\ run.body = None
          /\ run.inflight = <<run.reqs[Len(run.reqs)]>>
          /\ run.inflight[1].api = "GetObject"
    /\ run.pc = "collect" => run.inflight = <<>> /\ run.body # None

\* A read that refreshed the metadata and fetched a range is draining the
\* body.
C14_Witness ==
    /\ run.pc = "collect"
    /\ run.call.op = "read"
    /\ Len(run.reqs) = 2
    /\ run.reqs[1].api = "HeadObject"
    /\ run.reqs[2].api = "GetObject"
    /\ Len(unwrap(run.body)) > 0

\* The last read of the loop reported the end of the stream at the end of
\* the object.
AtEnd ==
    /\ loop.started
    /\ IsRead
    /\ last.res = IoOk(0)
    /\ length # None
    /\ position = unwrap(length)

\* C19: repeated reads into a non-empty buffer on an unchanged object, every
\* call succeeding, eventually return 0 with the position at the length,
\* and so does every later read; what the reads returned, concatenated, is
\* the content from the starting position to the end.
C19_ReadToEnd ==
    /\ [](AtEnd => loop.bytes = ObjectBytes(remote, loop.from, remote_len - 1))
    /\ [](loop.started =>
            loop.bytes = ObjectBytes(remote, loop.from, position - 1))
    /\ <>[]AtEnd

\* A loop started in the middle of the object has reached the end in more
\* than one read.
C19_Witness ==
    /\ AtEnd
    /\ loop.from > 0
    /\ loop.from + MaxBuf < remote_len
    /\ Len(loop.bytes) = remote_len - loop.from
    /\ last.call.buf_len <= MaxBuf

====
